---- MODULE Spec2Model ----
(***************************************************************************)
(* Model of pysgrid/read_netcdf.py: detection of the SGRID topology        *)
(* variable, coordinate inference by location, and the load of a grid      *)
(* from a netCDF dataset by the 2-D / 3-D resolvers (SGrid2D / SGrid3D).   *)
(***************************************************************************)
EXTENDS Integers, Sequences, FiniteSets, TLC

VARIABLES
    ds,                 \* the netCDF dataset: [dimensions, variables]
    grid_topology_vars, \* the explicit topology variable argument (None when not given)
    sgrid,              \* the SGrid object: attribute name -> value
    var_props,          \* properties added to the SGrid by add_property: name -> descriptor
    pc,                 \* position of the load: "start", a resolver step, "returned", "raised"
    sg,                 \* the resolver object (SGrid2D / SGrid3D), None before it is built
    error,              \* the exception the load raised: its type and the step raising it
    td_writes,          \* how many times sgrid.topology_dimension has been assigned
    infer,              \* one call of find_coordinates_by_location: arguments and result
    trace,              \* the resolver methods the load has called, in call order
    earlier             \* what the earlier loads of the dataset returned: grid and properties

vars == <<ds, grid_topology_vars, sgrid, var_props, pc, sg,
          error, td_writes, infer, trace, earlier>>

----------------------------------------------------------------------------
(* Bounds of the model.                                                    *)

MaxTopoVars == 2      \* most variables carrying topology attributes in a dataset
MaxMissing == 1       \* most attribute groups left off the topology variable
MaxTagged == 2        \* most location-tagged variables in an inference input
MaxLoads == 2         \* most loads of one dataset in a row

----------------------------------------------------------------------------
(* Optional values: Python's None and a present value.                     *)

None == <<>>
Some(x) == <<x>>
IsSome(o) == o # <<>>
Val(o) == o[1]

(* The outcome of a call: a returned value or a raised exception.          *)
Ret(v) == [ok |-> TRUE, err |-> "", val |-> v]
Raise(e) == [ok |-> FALSE, err |-> e, val |-> None]

Range(s) == {s[i] : i \in 1..Len(s)}

----------------------------------------------------------------------------
(* Variable names as character strings: str.lower() and the `in` test.     *)

Chars(n) ==
    CASE n = "lon_rho" -> <<"l","o","n","_","r","h","o">>
      [] n = "lat_rho" -> <<"l","a","t","_","r","h","o">>
      [] n = "LON_RHO" -> <<"L","O","N","_","R","H","O">>
      [] n = "Lat_rho" -> <<"L","a","t","_","r","h","o">>
      [] n = "lon_psi" -> <<"l","o","n","_","p","s","i">>
      [] n = "lat_psi" -> <<"l","a","t","_","p","s","i">>
      [] n = "latlon"  -> <<"l","a","t","l","o","n">>
      [] n = "xc"      -> <<"x","c">>
      [] n = "yc"      -> <<"y","c">>
      [] n = "zc"      -> <<"z","c">>
      [] n = "s_rho"   -> <<"s","_","r","h","o">>
      [] n = "zeta"    -> <<"z","e","t","a">>
      [] n = "temp"    -> <<"t","e","m","p">>
      [] n = "u"       -> <<"u">>
      [] n = "v"       -> <<"v">>
      [] n = "time"    -> <<"t","i","m","e">>
      [] n = "Times"   -> <<"T","i","m","e","s">>
      [] n = "angle"   -> <<"a","n","g","l","e">>
      [] n = "grid"    -> <<"g","r","i","d">>
      [] n = "grid_b"  -> <<"g","r","i","d","_","b">>
      [] n = "grid_c"  -> <<"g","r","i","d","_","c">>
      [] OTHER         -> <<"?">>

LowerChar(c) ==
    CASE c = "L" -> "l" [] c = "O" -> "o" [] c = "N" -> "n"
      [] c = "A" -> "a" [] c = "T" -> "t" [] c = "R" -> "r"
      [] c = "H" -> "h" [] OTHER -> c

lower(s) == [i \in 1..Len(s) |-> LowerChar(s[i])]

\* Python's `sub in s` for strings
Contains(sub, s) ==
    \E i \in 0..(Len(s) - Len(sub)) :
        \A j \in 1..Len(sub) : s[i + j] = sub[j]

has_lon(n) == Contains(<<"l","o","n">>, lower(Chars(n)))
has_lat(n) == Contains(<<"l","a","t">>, lower(Chars(n)))

\* str.strip() on a string given as a sequence of pieces; " " is white space
RECURSIVE lstrip(_)
lstrip(s) == IF s # <<>> /\ Head(s) = " " THEN lstrip(Tail(s)) ELSE s
RECURSIVE rstrip(_)
rstrip(s) ==
    IF s # <<>> /\ s[Len(s)] = " " THEN rstrip(SubSeq(s, 1, Len(s) - 1)) ELSE s
strip(s) == rstrip(lstrip(s))

----------------------------------------------------------------------------
(* netCDF access: variables by name, attributes.                           *)

HasAttr(v, a) == a \in DOMAIN v.attrs
VarNames(d) == {d.variables[i].name : i \in 1..Len(d.variables)}
HasVar(d, n) == n \in VarNames(d)
GetVar(d, n) == d.variables[CHOOSE i \in 1..Len(d.variables) : d.variables[i].name = n]
NoAttrs == [a \in {} |-> None]
Var(n, dims, attrs) == [name |-> n, dimensions |-> dims, attrs |-> attrs]

----------------------------------------------------------------------------
(* Attribute strings are sequences of pieces: a word, or " " (one blank).  *)

\* str.split(' '): consecutive blanks and blanks at the ends give '' items
RECURSIVE split(_)
split(s) ==
    IF s = <<>> THEN <<"">>
    ELSE IF Head(s) = " " THEN <<"">> \o split(Tail(s))
    ELSE IF Tail(s) = <<>> THEN <<Head(s)>>
    ELSE <<Head(s)>> \o split(Tail(Tail(s)))

----------------------------------------------------------------------------
(* class NetCDFDataset                                                     *)

LON_GRID_CELL_NODE_LONG_NAME == {"longitude of grid cell nodes"}
LAT_GRID_CELL_NODE_LONG_NAME == {"latitude of grid cell nodes"}

\* the last variable of the sequence vs whose long_name is in the lookup set
RECURSIVE last_long_name_in(_, _)
last_long_name_in(vs, names) ==
    IF vs = <<>> THEN None
    ELSE LET v == vs[Len(vs)]
         IN  IF HasAttr(v, "long_name") /\ v.attrs["long_name"] \in names
             THEN Some(v.name)
             ELSE last_long_name_in(SubSeq(vs, 1, Len(vs) - 1), names)

find_grid_cell_node_vars(d) ==
    << last_long_name_in(d.variables, LON_GRID_CELL_NODE_LONG_NAME),
       last_long_name_in(d.variables, LAT_GRID_CELL_NODE_LONG_NAME) >>

\* a variable the loop of find_grid_topology_vars appends to its list
qualifies(v) ==
    /\ HasAttr(v, "cf_role")
    /\ strip(v.attrs["cf_role"]) = <<"grid_topology">>
    /\ HasAttr(v, "topology_dimension")
    /\ v.attrs["topology_dimension"] >= 2

\* reading nc_var_obj.topology_dimension in the else branch is not guarded
raises_in_detection(v) ==
    HasAttr(v, "cf_role") /\ ~HasAttr(v, "topology_dimension")

find_grid_topology_vars(d) ==
    IF \E i \in 1..Len(d.variables) : raises_in_detection(d.variables[i])
    THEN Raise("AttributeError")
    ELSE LET found == SelectSeq(d.variables, qualifies)
         IN  IF Len(found) > 0 THEN Ret(Some(found[1].name)) ELSE Ret(None)

search_variables_by_location(d, location_str) ==
    LET tagged(v) == HasAttr(v, "location") /\ v.attrs["location"] = location_str
        hits == SelectSeq(d.variables, tagged)
    IN  [i \in 1..Len(hits) |-> hits[i].name]

NoCoordinates == [x |-> None, y |-> None, z |-> None]

\* potential_coordinates without the test of the dimensions being a subset
potential_coordinates_any_dimensions(d, location_var) ==
    LET candidate(v) ==
            /\ v.name # location_var.name
            /\ Range(v.dimensions) # {}
    IN  SelectSeq(d.variables, candidate)

\* lines 123-131: the candidates when the location variable has no coordinates
potential_coordinates(d, location_var) ==
    LET candidate(v) ==
            /\ Range(v.dimensions) \subseteq Range(location_var.dimensions)
            /\ v.name # location_var.name
            /\ Range(v.dimensions) # {}
    IN  SelectSeq(d.variables, candidate)

\* lines 132-139
RECURSIVE classify_by_name(_, _)
classify_by_name(pcs, c) ==
    IF pcs = <<>> THEN c
    ELSE LET pc_name == Head(pcs).name
         IN  classify_by_name(Tail(pcs),
                 IF has_lon(pc_name) THEN [c EXCEPT !.x = Some(pc_name)]
                 ELSE IF has_lat(pc_name) THEN [c EXCEPT !.y = Some(pc_name)]
                 ELSE [c EXCEPT !.z = Some(pc_name)])

\* classify_token looking at the name only, whatever the standard_name
classify_token_by_name_only(d, lvc, c) ==
    LET var_coord == GetVar(d, lvc)
    IN  IF has_lon(var_coord.name) THEN [c EXCEPT !.x = Some(lvc)]
        ELSE IF has_lat(var_coord.name) THEN [c EXCEPT !.y = Some(lvc)]
        ELSE c

\* lines 143-155, one item of the coordinates attribute
classify_token(d, lvc, c) ==
    LET var_coord == GetVar(d, lvc)
    IN  IF ~HasAttr(var_coord, "standard_name")
        THEN IF has_lon(var_coord.name) THEN [c EXCEPT !.x = Some(lvc)]
             ELSE IF has_lat(var_coord.name) THEN [c EXCEPT !.y = Some(lvc)]
             ELSE c
        ELSE IF var_coord.attrs["standard_name"] = "longitude"
             THEN [c EXCEPT !.x = Some(lvc)]
             ELSE IF var_coord.attrs["standard_name"] = "latitude"
             THEN [c EXCEPT !.y = Some(lvc)]
             ELSE c

\* lines 142-155; nc_vars[lvc] raises KeyError for an unknown name
RECURSIVE classify_tokens(_, _, _)
classify_tokens(d, lvc_split, c) ==
    IF lvc_split = <<>> THEN Ret(c)
    ELSE IF ~HasVar(d, Head(lvc_split)) THEN Raise("KeyError")
    ELSE classify_tokens(d, Tail(lvc_split), classify_token(d, Head(lvc_split), c))

\* lines 141-158
by_coordinates_attribute(d, location_var, c) ==
    LET lvc_split == split(strip(location_var.attrs["coordinates"]))
        r == classify_tokens(d, lvc_split, c)
    IN  IF ~r.ok THEN r
        ELSE IF Len(lvc_split) = 3
             THEN Ret([r.val EXCEPT !.z = Some(lvc_split[Len(lvc_split)])])
             ELSE r

\* lines 116-158: the loop over the variables with the location; only the
\* branch of a variable with a coordinates attribute ends in break
RECURSIVE location_loop(_, _, _)
location_loop(d, vars_with_location, c) ==
    IF vars_with_location = <<>> THEN Ret(c)
    ELSE LET location_var == GetVar(d, Head(vars_with_location))
         IN  IF ~HasAttr(location_var, "coordinates")
             THEN location_loop(d, Tail(vars_with_location),
                      classify_by_name(potential_coordinates(d, location_var), c))
             ELSE by_coordinates_attribute(d, location_var, c)

find_coordinates_by_location(d, location_str, topology_dim) ==
    LET r == location_loop(d, search_variables_by_location(d, location_str),
                           NoCoordinates)
    IN  IF ~r.ok THEN r
        ELSE LET c == r.val
                 coordinates == IF topology_dim = 2 THEN <<c.x, c.y>>
                                ELSE <<c.x, c.y, c.z>>
             IN  IF \A i \in 1..Len(coordinates) : IsSome(coordinates[i])
                 THEN Ret(Some([i \in 1..Len(coordinates) |-> Val(coordinates[i])]))
                 ELSE Ret(None)

sgrid_compliant_file(d) ==
    LET grid_vars == find_grid_topology_vars(d)
    IN  IF ~grid_vars.ok THEN grid_vars ELSE Ret(IsSome(grid_vars.val))

----------------------------------------------------------------------------
(* The SGrid object handed to the load, ParsePadding and the slicing of    *)
(* utils.determine_variable_slicing.                                       *)

SGridAttributes ==
    {"dimensions", "topology_dimension", "grid_topology_vars",
     "node_dimensions", "node_coordinates",
     "edge1_dimensions", "edge1_padding", "edge1_coordinates",
     "edge2_dimensions", "edge2_padding", "edge2_coordinates",
     "edge3_dimensions", "edge3_padding", "edge3_coordinates",
     "face_dimensions", "face_padding", "face_coordinates",
     "vertical_dimensions", "vertical_padding",
     "face1_dimensions", "face1_padding", "face1_coordinates",
     "face2_dimensions", "face2_padding", "face2_coordinates",
     "face3_dimensions", "face3_padding", "face3_coordinates",
     "volume_dimensions", "volume_padding", "volume_coordinates",
     "angles", "grid_times", "centers", "nodes", "variables", "grid_variables"}

\* a new SGrid: every attribute exists and is None
NewSGrid == [a \in SGridAttributes |-> None]

\* Python attribute assignment, `del`, and reading
SetAttr(g, a, v) == [k \in DOMAIN g \cup {a} |-> IF k = a THEN v ELSE g[k]]
DelAttr(g, a) == [k \in DOMAIN g \ {a} |-> g[k]]
Exists(g, a) == a \in DOMAIN g
IsSet(g, a) == a \in DOMAIN g /\ IsSome(g[a])

\* several assignments in order: as is a sequence of <<attribute, value>>
RECURSIVE SetAttrs(_, _)
SetAttrs(g, as) ==
    IF as = <<>> THEN g ELSE SetAttrs(SetAttr(g, Head(as)[1], Head(as)[2]), Tail(as))

\* ParsePadding.parse_padding: one (dim, sub_dim, padding) per clause, a clause
\* without a padding kind counting as none
parse_padding(clauses) ==
    [i \in 1..Len(clauses) |->
        << clauses[i].dim, clauses[i].sub_dim,
           IF clauses[i].padding = "" THEN "none" ELSE clauses[i].padding >>]

PaddingAttributes ==
    <<"face_padding", "edge1_padding", "edge2_padding", "edge3_padding",
      "vertical_padding", "volume_padding",
      "face1_padding", "face2_padding", "face3_padding">>

\* every padding triple the grid holds
RECURSIVE padding_summary(_, _)
padding_summary(g, as) ==
    IF as = <<>> THEN <<>>
    ELSE (IF IsSet(g, Head(as)) THEN Val(g[Head(as)]) ELSE <<>>)
         \o padding_summary(g, Tail(as))

dim_size(d, dim) ==
    d.dimensions[CHOOSE i \in 1..Len(d.dimensions) : d.dimensions[i][1] = dim][2]

\* the index range (first, last) a padding kind leaves of a dimension of size n
padding_slice(kind, n) ==
    CASE kind = "both" -> <<1, n - 2>>
      [] kind = "low"  -> <<1, n - 1>>
      [] kind = "high" -> <<0, n - 2>>
      [] OTHER         -> <<0, n - 1>>

determine_variable_slicing(g, d, variable) ==
    LET var_dims == GetVar(d, variable).dimensions
        summary == padding_summary(g, PaddingAttributes)
        matching(var_dim) == SelectSeq(summary, LAMBDA info : info[1] = var_dim)
    IN  [i \in 1..Len(var_dims) |->
            IF matching(var_dims[i]) = <<>>
            THEN padding_slice("none", dim_size(d, var_dims[i]))
            ELSE padding_slice(matching(var_dims[i])[1][3], dim_size(d, var_dims[i]))]

\* utils.pair_arrays of the data of two variables, kept as the pair of sources
pair_arrays(lon, lat) == <<lon, lat>>

----------------------------------------------------------------------------
(* The datasets the load is run on.                                        *)

Dimensions ==
    << <<"time", 3>>, <<"s_rho", 4>>, <<"s_w", 5>>,
       <<"eta_rho", 10>>, <<"xi_rho", 6>>, <<"eta_psi", 9>>, <<"xi_psi", 5>>,
       <<"eta_u", 10>>, <<"xi_u", 5>>, <<"eta_v", 9>>, <<"xi_v", 6>> >>

Clause(dim, sub_dim, padding) == [dim |-> dim, sub_dim |-> sub_dim, padding |-> padding]

\* the attribute groups a topology variable may carry
AttributeGroups ==
    {"node_dimensions", "node_coordinates", "edge", "face_dimensions",
     "face_coordinates", "vertical_dimensions", "face123",
     "volume_dimensions", "volume_coordinates"}

GroupAttrs(g) ==
    CASE g = "node_dimensions" -> ("node_dimensions" :> <<"xi_psi", " ", "eta_psi">>)
      [] g = "node_coordinates" -> ("node_coordinates" :> <<"lon_psi", " ", "lat_psi">>)
      [] g = "edge" ->
            ("edge1_dimensions" :> <<Clause("xi_u", "xi_psi", ""),
                                     Clause("eta_u", "eta_psi", "low")>>)
         @@ ("edge1_coordinates" :> <<"lon_u", " ", "lat_u">>)
         @@ ("edge2_dimensions" :> <<Clause("xi_v", "xi_psi", "high"),
                                     Clause("eta_v", "eta_psi", "none")>>)
         @@ ("edge2_coordinates" :> <<"lon_v", " ", "lat_v">>)
         @@ ("edge3_dimensions" :> <<Clause("s_w", "s_rho", "both")>>)
         @@ ("edge3_coordinates" :> <<"lon_w", " ", "lat_w", " ", "s_w">>)
      [] g = "face_dimensions" ->
            ("face_dimensions" :> <<Clause("xi_rho", "xi_psi", "both"),
                                    Clause("eta_rho", "eta_psi", "both")>>)
      [] g = "face_coordinates" -> ("face_coordinates" :> <<"lon_rho", " ", "lat_rho">>)
      [] g = "vertical_dimensions" ->
            ("vertical_dimensions" :> <<Clause("s_rho", "s_w", "none")>>)
      [] g = "face123" ->
            ("face1_dimensions" :> <<Clause("xi_u", "xi_psi", ""),
                                     Clause("eta_u", "eta_psi", "low")>>)
         @@ ("face1_coordinates" :> <<"lon_u", " ", "lat_u">>)
         @@ ("face2_dimensions" :> <<Clause("xi_v", "xi_psi", "high"),
                                     Clause("eta_v", "eta_psi", "none")>>)
         @@ ("face2_coordinates" :> <<"lon_v", " ", "lat_v">>)
         @@ ("face3_dimensions" :> <<Clause("xi_rho", "xi_psi", "both"),
                                     Clause("eta_rho", "eta_psi", "both")>>)
         @@ ("face3_coordinates" :> <<"lon_rho", " ", "lat_rho">>)
      [] g = "volume_dimensions" ->
            ("volume_dimensions" :> <<Clause("xi_rho", "xi_psi", "both"),
                                      Clause("eta_rho", "eta_psi", "both"),
                                      Clause("s_rho", "s_w", "none")>>)
      [] g = "volume_coordinates" ->
            ("volume_coordinates" :> <<"lon_rho", " ", "lat_rho", " ", "s_rho">>)

RECURSIVE ProfileAttrs(_)
ProfileAttrs(groups) ==
    IF groups = {} THEN NoAttrs
    ELSE LET g == CHOOSE x \in groups : TRUE
         IN  GroupAttrs(g) @@ ProfileAttrs(groups \ {g})

Profiles ==
    {S \in SUBSET AttributeGroups : Cardinality(AttributeGroups \ S) <= MaxMissing}
    \cup {{}}

OptAttr(a, o) == IF IsSome(o) THEN (a :> Val(o)) ELSE NoAttrs

CfRoleChoices ==
    {None, Some(<<"grid_topology">>), Some(<<"grid_topology", " ">>),
     Some(<<"timeseries_id">>)}
TopologyDimensionChoices == {None, Some(1), Some(2), Some(3), Some(4)}
TopoConfigs == [cf_role : CfRoleChoices, topology_dimension : TopologyDimensionChoices]
TopoNames == <<"grid", "grid_b", "grid_c", "grid_d">>

TopoVar(name, cfg, profile) ==
    Var(name, <<>>,
        OptAttr("cf_role", cfg.cf_role)
        @@ OptAttr("topology_dimension", cfg.topology_dimension)
        @@ ProfileAttrs(profile))

\* what the data variable zeta says of its location and coordinates
LocationChoices == {None, Some("face"), Some("volume")}
CoordinatesChoices ==
    {None, Some(<<"lon_rho", " ", "lat_rho">>),
     Some(<<"lon_rho", " ", "lat_rho", " ", "s_rho">>),
     Some(<<"lon_rho", " ", " ", "lat_rho">>)}
Scenarios == [location : LocationChoices, coordinates : CoordinatesChoices]

TimeVariables == {"time", "Times", "angle"}

Dataset(topos, profile, tset, scen) ==
    [dimensions |-> Dimensions,
     variables |->
        << Var("zeta", <<"time", "eta_rho", "xi_rho">>,
               ("grid" :> "grid") @@ OptAttr("location", scen.location)
               @@ OptAttr("coordinates", scen.coordinates)) >>
        \o [i \in 1..Len(topos) |-> TopoVar(TopoNames[i], topos[i], profile)]
        \o << Var("lon_rho", <<"eta_rho", "xi_rho">>, ("standard_name" :> "longitude")),
              Var("lat_rho", <<"eta_rho", "xi_rho">>, ("standard_name" :> "latitude")),
              Var("lon_psi", <<"eta_psi", "xi_psi">>,
                  ("long_name" :> "longitude of grid cell nodes")),
              Var("lat_psi", <<"eta_psi", "xi_psi">>,
                  ("long_name" :> "latitude of grid cell nodes")),
              Var("s_rho", <<"s_rho">>, NoAttrs),
              Var("u", <<"time", "s_rho", "eta_u", "xi_u">>,
                  ("grid" :> "grid") @@ ("location" :> "edge1")),
              Var("v", <<"time", "s_rho", "eta_v", "xi_v">>, NoAttrs) >>
        \o (IF "time" \in tset THEN <<Var("time", <<"time">>, NoAttrs)>> ELSE <<>>)
        \o (IF "Times" \in tset THEN <<Var("Times", <<"time">>, NoAttrs)>> ELSE <<>>)
        \o (IF "angle" \in tset
            THEN <<Var("angle", <<"eta_rho", "xi_rho">>, NoAttrs)>> ELSE <<>>)]

FullScenario == [location |-> Some("face"), coordinates |-> Some(<<"lon_rho", " ", "lat_rho">>)]

TopoSeqs == UNION {[1..n -> TopoConfigs] : n \in 0..MaxTopoVars}

\* datasets that vary the variables detection looks at, with any explicit choice
DetectInputs ==
    {[ds |-> Dataset(topos, AttributeGroups, TimeVariables, FullScenario),
      explicit |-> e] :
        topos \in TopoSeqs,
        e \in {None, Some("grid"), Some("grid_b"), Some("zeta"), Some("nosuch")}}

\* compliant datasets that vary what the resolvers read
ResolveInputs ==
    {[ds |-> Dataset(<<[cf_role |-> Some(<<"grid_topology">>),
                        topology_dimension |-> Some(td)]>>, profile, tset, scen),
      explicit |-> e] :
        td \in {2, 3}, profile \in Profiles, tset \in SUBSET TimeVariables,
        scen \in Scenarios, e \in {None, Some("grid")}}

LoadInputs == DetectInputs \cup ResolveInputs

NoError == [type |-> "", at |-> ""]
NoInfer == [location_str |-> "", topology_dim |-> 0, called |-> FALSE, result |-> Ret(None)]
NoProps == [n \in {} |-> None]

Init ==
    \E input \in LoadInputs :
        /\ ds = input.ds
        /\ grid_topology_vars = input.explicit
        /\ sgrid = NewSGrid
        /\ var_props = NoProps
        /\ pc = "start"
        /\ sg = None
        /\ error = NoError
        /\ td_writes = 0
        /\ infer = NoInfer
        /\ trace = <<>>
        /\ earlier = <<>>

----------------------------------------------------------------------------
(* load_grid_from_nc_dataset and the resolver steps it calls.              *)

\* Steps2D with set_sgrid_time called after set_sgrid_variable_attributes
Steps2D_time_after_variables ==
    <<"set_dimensions", "set_topology_dimension", "set_sgrid_topology",
      "set_sgrid_vertical_dimensions", "set_sgrid_node_coordinates",
      "set_all_edge_attributes", "set_all_face_attributes",
      "set_cell_center_lat_lon", "set_cell_node_lat_lon", "set_sgrid_angles",
      "set_sgrid_variable_attributes", "set_sgrid_time", "delete_nd_attributes">>

Steps2D ==
    <<"set_dimensions", "set_topology_dimension", "set_sgrid_topology",
      "set_sgrid_vertical_dimensions", "set_sgrid_node_coordinates",
      "set_all_edge_attributes", "set_all_face_attributes",
      "set_cell_center_lat_lon", "set_cell_node_lat_lon", "set_sgrid_angles",
      "set_sgrid_time", "set_sgrid_variable_attributes", "delete_nd_attributes">>

Steps3D ==
    <<"set_dimensions", "set_topology_dimension", "set_sgrid_topology",
      "set_sgrid_node_coordinates", "set_all_edge_attributes",
      "set_all_face_attributes", "set_volume_dimensions",
      "set_volume_coordinates", "set_cell_center_lat_lon",
      "set_cell_node_lat_lon", "set_sgrid_angles", "set_sgrid_time",
      "set_sgrid_variable_attributes", "delete_nd_attributes">>

StepsOf(topology_dim) == IF topology_dim = 2 THEN Steps2D ELSE Steps3D

\* the call after step in the branch of the load; the branch ends in return
StepAfter(topology_dim, step) ==
    LET steps == StepsOf(topology_dim)
        i == CHOOSE k \in 1..Len(steps) : steps[k] = step
    IN  IF i = Len(steps) THEN "returned" ELSE steps[i + 1]

topology_var == GetVar(ds, Val(sg).topology_variable)

\* the step at pc leaves the grid g and the load goes on
Goes(g) ==
    /\ sgrid' = g
    /\ pc' = StepAfter(Val(sg).topology_dim, pc)
    /\ error' = error
    /\ trace' = Append(trace, pc)
    /\ earlier' = earlier

\* the step at pc raises; the grid keeps what was assigned before the raise
Raises(type, g) ==
    /\ sgrid' = g
    /\ pc' = "raised"
    /\ error' = [type |-> type, at |-> pc]
    /\ trace' = IF pc = "start" THEN trace ELSE Append(trace, pc)
    /\ earlier' = earlier

\* the resolver objects: SGridND.__init__ with the class's topology_dim
SGrid2D(name) == [topology_variable |-> name, topology_dim |-> 2]
\* SGrid3D with the class attribute of SGrid2D
SGrid3D_with_topology_dim_2(name) == [topology_variable |-> name, topology_dim |-> 2]
SGrid3D(name) == [topology_variable |-> name, topology_dim |-> 3]

\* resolver_for with the last branch taken for every dimension above 2
resolver_for_no_else(name, topology_dimension) ==
    IF topology_dimension = 2 THEN Some(SGrid2D(name))
    ELSE IF topology_dimension >= 3 THEN Some(SGrid3D(name))
    ELSE None

\* the branch of the load taken for a topology dimension; None is the else
\* branch, which raises ValueError
resolver_for(name, topology_dimension) ==
    IF topology_dimension = 2 THEN Some(SGrid2D(name))
    ELSE IF topology_dimension = 3 THEN Some(SGrid3D(name))
    ELSE None

\* the load builds a resolver and goes to its first step
Builds(g, resolver) ==
    /\ sgrid' = g
    /\ sg' = Some(resolver)
    /\ pc' = StepsOf(resolver.topology_dim)[1]
    /\ error' = error
    /\ trace' = trace
    /\ earlier' = earlier

load_grid_from_nc_dataset ==
    /\ pc = "start"
    /\ LET is_sgrid_compliant == sgrid_compliant_file(ds)
           grid_topology_vars_attr ==
               IF grid_topology_vars = None THEN find_grid_topology_vars(ds).val
               ELSE grid_topology_vars
           g == SetAttrs(sgrid, << <<"dimensions", Some(ds.dimensions)>>,
                                   <<"grid_topology_vars", grid_topology_vars_attr>> >>)
           name == Val(grid_topology_vars_attr)
       IN  IF ~is_sgrid_compliant.ok
           THEN Raises(is_sgrid_compliant.err, sgrid) /\ sg' = sg
           ELSE IF ~is_sgrid_compliant.val
           THEN Raises("SGridNonCompliantError", sgrid) /\ sg' = sg
           ELSE IF ~HasVar(ds, name)
           THEN Raises("KeyError", g) /\ sg' = sg
           ELSE IF ~HasAttr(GetVar(ds, name), "topology_dimension")
           THEN Raises("AttributeError", g) /\ sg' = sg
           ELSE IF IsSome(resolver_for(name, GetVar(ds, name).attrs["topology_dimension"]))
           THEN Builds(g, Val(resolver_for(name,
                                  GetVar(ds, name).attrs["topology_dimension"])))
           ELSE Raises("ValueError", g) /\ sg' = sg
    /\ UNCHANGED <<ds, grid_topology_vars, var_props, td_writes, infer>>

set_dimensions ==
    /\ pc = "set_dimensions"
    /\ Goes(SetAttr(sgrid, "dimensions", Some(ds.dimensions)))
    /\ UNCHANGED <<ds, grid_topology_vars, var_props, sg, td_writes, infer>>

set_topology_dimension ==
    /\ pc = "set_topology_dimension"
    /\ Goes(SetAttr(sgrid, "topology_dimension", Some(Val(sg).topology_dim)))
    /\ td_writes' = td_writes + 1
    /\ UNCHANGED <<ds, grid_topology_vars, var_props, sg, infer>>

set_sgrid_topology ==
    /\ pc = "set_sgrid_topology"
    /\ Goes(SetAttr(sgrid, "topology_dimension",
                    Some(topology_var.attrs["topology_dimension"])))
    /\ td_writes' = td_writes + 1
    /\ UNCHANGED <<ds, grid_topology_vars, var_props, sg, infer>>

\* the set_*_dimensions methods: attribute absent -> pass
set_padded_dimensions(g, tv, attribute, dim_attr, padding_attr) ==
    IF ~HasAttr(tv, attribute) THEN g
    ELSE SetAttrs(g, << <<dim_attr, Some(tv.attrs[attribute])>>,
                        <<padding_attr, Some(parse_padding(tv.attrs[attribute]))>> >>)

\* the set_*_coordinates methods that pass when the attribute is absent
set_split_coordinates(g, tv, attribute) ==
    IF ~HasAttr(tv, attribute) THEN g
    ELSE SetAttr(g, attribute, Some(split(tv.attrs[attribute])))

set_edge1_dimensions(g, tv) ==
    set_padded_dimensions(g, tv, "edge1_dimensions", "edge1_dimension", "edge1_padding")
set_edge1_coordinates(g, tv) == set_split_coordinates(g, tv, "edge1_coordinates")
set_edge2_dimensions(g, tv) ==
    set_padded_dimensions(g, tv, "edge2_dimensions", "edge2_dimension", "edge2_padding")
set_edge2_coordinates(g, tv) == set_split_coordinates(g, tv, "edge2_coordinates")
set_edge3_dimensions(g, tv) ==
    set_padded_dimensions(g, tv, "edge3_dimensions", "edge3_dimension", "edge3_padding")
set_edge3_coordinates(g, tv) == set_split_coordinates(g, tv, "edge3_coordinates")

set_face_dimensions(g, tv) ==
    set_padded_dimensions(g, tv, "face_dimensions", "face_dimensions", "face_padding")
set_face1_dimensions(g, tv) ==
    set_padded_dimensions(g, tv, "face1_dimensions", "face1_dimensions", "face1_padding")
set_face1_coordinates(g, tv) == set_split_coordinates(g, tv, "face1_coordinates")
set_face2_dimensions(g, tv) ==
    set_padded_dimensions(g, tv, "face2_dimensions", "face2_dimensions", "face2_padding")
set_face2_coordinates(g, tv) == set_split_coordinates(g, tv, "face2_coordinates")
set_face3_dimensions(g, tv) ==
    set_padded_dimensions(g, tv, "face3_dimensions", "face3_dimensions", "face3_padding")
set_face3_coordinates(g, tv) == set_split_coordinates(g, tv, "face3_coordinates")

set_sgrid_vertical_dimensions ==
    /\ pc = "set_sgrid_vertical_dimensions"
    /\ Goes(set_padded_dimensions(sgrid, topology_var, "vertical_dimensions",
                                  "vertical_dimensions", "vertical_padding"))
    /\ UNCHANGED <<ds, grid_topology_vars, var_props, sg, td_writes, infer>>

set_sgrid_node_coordinates ==
    /\ pc = "set_sgrid_node_coordinates"
    /\ IF ~HasAttr(topology_var, "node_dimensions")
       THEN Raises("AttributeError", sgrid)
       ELSE LET g == SetAttr(sgrid, "node_dimensions",
                             Some(topology_var.attrs["node_dimensions"]))
                node_coordinate_val == split(topology_var.attrs["node_coordinates"])
            IN  IF ~HasAttr(topology_var, "node_coordinates")
                THEN Goes(SetAttr(g, "node_coordinates",
                                  Some(find_grid_cell_node_vars(ds))))
                ELSE Goes(SetAttr(g, "node_coordinates",
                         Some([i \in 1..Len(node_coordinate_val) |->
                                  Some(node_coordinate_val[i])])))
    /\ UNCHANGED <<ds, grid_topology_vars, var_props, sg, td_writes, infer>>

set_all_edge_attributes ==
    /\ pc = "set_all_edge_attributes"
    /\ LET tv == topology_var
           g2 == set_edge2_coordinates(set_edge2_dimensions(
                    set_edge1_coordinates(set_edge1_dimensions(sgrid, tv), tv), tv), tv)
       IN  IF Val(sg).topology_dim = 2 THEN Goes(g2)
           ELSE Goes(set_edge3_coordinates(set_edge3_dimensions(g2, tv), tv))
    /\ UNCHANGED <<ds, grid_topology_vars, var_props, sg, td_writes, infer>>

\* set_face_coordindates and set_volume_coordinates: the attribute, or else
\* the inference by location, whose exception is not caught
set_center_coordinates(g, attribute, location_str) ==
    LET r == find_coordinates_by_location(ds, location_str, Val(sg).topology_dim)
    IN  IF HasAttr(topology_var, attribute)
        THEN /\ Goes(SetAttr(g, attribute, Some(split(topology_var.attrs[attribute]))))
             /\ infer' = infer
        ELSE /\ infer' = [location_str |-> location_str,
                          topology_dim |-> Val(sg).topology_dim,
                          called |-> TRUE, result |-> r]
             /\ IF r.ok THEN Goes(SetAttr(g, attribute, r.val))
                ELSE Raises(r.err, g)

set_all_face_attributes ==
    /\ pc = "set_all_face_attributes"
    /\ LET tv == topology_var
       IN  IF Val(sg).topology_dim = 2
           THEN set_center_coordinates(set_face_dimensions(sgrid, tv),
                                       "face_coordinates", "face")
           ELSE /\ Goes(set_face3_coordinates(set_face3_dimensions(
                        set_face2_coordinates(set_face2_dimensions(
                        set_face1_coordinates(set_face1_dimensions(sgrid, tv), tv),
                        tv), tv), tv), tv))
                /\ infer' = infer
    /\ UNCHANGED <<ds, grid_topology_vars, var_props, sg, td_writes>>

set_volume_dimensions ==
    /\ pc = "set_volume_dimensions"
    /\ Goes(set_padded_dimensions(sgrid, topology_var, "volume_dimensions",
                                  "volume_dimensions", "volume_padding"))
    /\ UNCHANGED <<ds, grid_topology_vars, var_props, sg, td_writes, infer>>

set_volume_coordinates ==
    /\ pc = "set_volume_coordinates"
    /\ set_center_coordinates(sgrid, "volume_coordinates", "volume")
    /\ UNCHANGED <<ds, grid_topology_vars, var_props, sg, td_writes>>

\* reading the data of a variable: nc_dataset.variables[name][:]
CanRead(name_opt) == IsSome(name_opt) /\ HasVar(ds, Val(name_opt))

set_cell_center_lat_lon ==
    /\ pc = "set_cell_center_lat_lon"
    /\ IF Val(sg).topology_dim = 2
       THEN LET face_coordinates == sgrid["face_coordinates"]
            IN  IF face_coordinates = None THEN Raises("TypeError", sgrid)
                ELSE IF Len(Val(face_coordinates)) # 2 THEN Raises("ValueError", sgrid)
                ELSE IF ~HasVar(ds, Val(face_coordinates)[2])
                        \/ ~HasVar(ds, Val(face_coordinates)[1])
                THEN Raises("KeyError", sgrid)
                ELSE Goes(SetAttr(sgrid, "centers",
                         Some(pair_arrays(Val(face_coordinates)[1],
                                          Val(face_coordinates)[2]))))
       ELSE LET volume_coordinates == sgrid["volume_coordinates"]
            IN  IF volume_coordinates = None THEN Raises("TypeError", sgrid)
                ELSE IF Len(Val(volume_coordinates)) < 2 THEN Raises("IndexError", sgrid)
                ELSE IF ~HasVar(ds, Val(volume_coordinates)[1])
                        \/ ~HasVar(ds, Val(volume_coordinates)[2])
                THEN Raises("KeyError", sgrid)
                ELSE Goes(SetAttr(sgrid, "centers",
                         Some(pair_arrays(Val(volume_coordinates)[1],
                                          Val(volume_coordinates)[2]))))
    /\ UNCHANGED <<ds, grid_topology_vars, var_props, sg, td_writes, infer>>

set_cell_node_lat_lon ==
    /\ pc = "set_cell_node_lat_lon"
    /\ IF Val(sg).topology_dim = 2
       THEN LET node_coordinates == Val(sgrid["node_coordinates"])
            IN  IF Len(node_coordinates) # 2 THEN Raises("ValueError", sgrid)
                ELSE IF ~CanRead(node_coordinates[2]) \/ ~CanRead(node_coordinates[1])
                THEN Raises("KeyError", sgrid)
                ELSE Goes(SetAttr(sgrid, "nodes",
                         Some(pair_arrays(Val(node_coordinates[1]),
                                          Val(node_coordinates[2])))))
       ELSE Goes(sgrid)
    /\ UNCHANGED <<ds, grid_topology_vars, var_props, sg, td_writes, infer>>

set_sgrid_angles ==
    /\ pc = "set_sgrid_angles"
    /\ IF HasVar(ds, "angle") THEN Goes(SetAttr(sgrid, "angles", Some("angle")))
       ELSE Goes(sgrid)
    /\ UNCHANGED <<ds, grid_topology_vars, var_props, sg, td_writes, infer>>

\* time_variable with the two names tried in the other order
time_variable_times_first(d) ==
    IF HasVar(d, "Times") THEN Some("Times")
    ELSE IF HasVar(d, "time") THEN Some("time")
    ELSE None

\* the variable whose data set_sgrid_time reads: 'time', on KeyError 'Times'
time_variable(d) ==
    IF HasVar(d, "time") THEN Some("time")
    ELSE IF HasVar(d, "Times") THEN Some("Times")
    ELSE None

set_sgrid_time ==
    /\ pc = "set_sgrid_time"
    /\ IF IsSome(time_variable(ds))
       THEN Goes(SetAttr(sgrid, "grid_times", time_variable(ds)))
       ELSE Raises("KeyError", sgrid)
    /\ UNCHANGED <<ds, grid_topology_vars, var_props, sg, td_writes, infer>>

\* sgrid_variable with the slicing determined from a grid without paddings
sgrid_variable_unpadded(g, d, nc_variable) ==
    [variable |-> nc_variable,
     center_slicing |-> determine_variable_slicing(NewSGrid, d, nc_variable)]

\* SGridVariable.create_variable with the center_slicing assigned to it
sgrid_variable(g, d, nc_variable) ==
    [variable |-> nc_variable,
     center_slicing |-> determine_variable_slicing(g, d, nc_variable)]

set_sgrid_variable_attributes ==
    /\ pc = "set_sgrid_variable_attributes"
    /\ LET dataset_variables == [i \in 1..Len(ds.variables) |-> ds.variables[i].name]
           with_grid == SelectSeq(ds.variables, LAMBDA v : HasAttr(v, "grid"))
           grid_variables == [i \in 1..Len(with_grid) |-> with_grid[i].name]
       IN  /\ var_props' = [n \in DOMAIN var_props \cup VarNames(ds) |->
                               IF n \in VarNames(ds) THEN sgrid_variable(sgrid, ds, n)
                               ELSE var_props[n]]
           /\ Goes(SetAttrs(sgrid, << <<"variables", Some(dataset_variables)>>,
                                      <<"grid_variables", Some(grid_variables)>> >>))
    /\ UNCHANGED <<ds, grid_topology_vars, sg, td_writes, infer>>

\* Deleted2D without the three edge3 attributes
Deleted2D_without_edge3 ==
    <<"volume_padding", "volume_dimensions", "volume_coordinates",
      "face1_padding", "face1_coordinates", "face1_dimensions",
      "face2_padding", "face2_coordinates", "face2_dimensions",
      "face3_padding", "face3_coordinates", "face3_dimensions">>

Deleted2D ==
    <<"volume_padding", "volume_dimensions", "volume_coordinates",
      "face1_padding", "face1_coordinates", "face1_dimensions",
      "face2_padding", "face2_coordinates", "face2_dimensions",
      "face3_padding", "face3_coordinates", "face3_dimensions",
      "edge3_padding", "edge3_coordinates", "edge3_dimensions">>

Deleted3D ==
    <<"face_padding", "face_coordinates", "face_dimensions",
      "vertical_padding", "vertical_dimensions">>

\* a run of `del` statements; the first attribute that does not exist raises
RECURSIVE del_attributes(_, _)
del_attributes(g, as) ==
    IF as = <<>> THEN [ok |-> TRUE, g |-> g]
    ELSE IF ~Exists(g, Head(as)) THEN [ok |-> FALSE, g |-> g]
    ELSE del_attributes(DelAttr(g, Head(as)), Tail(as))

delete_nd_attributes ==
    /\ pc = "delete_nd_attributes"
    /\ LET r == del_attributes(sgrid, IF Val(sg).topology_dim = 2 THEN Deleted2D
                                      ELSE Deleted3D)
       IN  IF r.ok THEN Goes(r.g) ELSE Raises("AttributeError", r.g)
    /\ UNCHANGED <<ds, grid_topology_vars, var_props, sg, td_writes, infer>>

Next ==
    \/ load_grid_from_nc_dataset
    \/ set_dimensions
    \/ set_topology_dimension
    \/ set_sgrid_topology
    \/ set_sgrid_vertical_dimensions
    \/ set_sgrid_node_coordinates
    \/ set_all_edge_attributes
    \/ set_all_face_attributes
    \/ set_volume_dimensions
    \/ set_volume_coordinates
    \/ set_cell_center_lat_lon
    \/ set_cell_node_lat_lon
    \/ set_sgrid_angles
    \/ set_sgrid_time
    \/ set_sgrid_variable_attributes
    \/ delete_nd_attributes

Spec == Init /\ [][Next]_vars

----------------------------------------------------------------------------
(* Calls of find_coordinates_by_location on datasets that vary the         *)
(* location-tagged variables and the variables they can refer to.          *)

TaggedNames == <<"zeta", "temp", "salt", "rho">>

TaggedCoordinates ==
    {None,
     Some(<<"lon_rho", " ", "Lat_rho">>),
     Some(<<"xc", " ", "yc", " ", "zc">>),
     Some(<<" ", "latlon", " ", "Lat_rho", " ", "lon_rho", " ">>),
     Some(<<"xc", " ", "yc", " ", "zc", " ", "lon_rho">>)}

TaggedSeqs == UNION {[1..n -> TaggedCoordinates] : n \in 0..MaxTagged}

CoordinatePool == {"lon_rho", "Lat_rho", "xc", "yc", "zc", "latlon"}

PoolDimensions(n) ==
    CASE n = "xc" -> <<"xi_rho">>
      [] n = "yc" -> <<"eta_rho">>
      [] n = "zc" -> <<"time">>
      [] OTHER -> <<"eta_rho", "xi_rho">>

StandardNameModes == {"absent", "cf", "odd"}

PoolStandardName(mode, n) ==
    CASE mode = "cf" /\ n \in {"lon_rho", "xc"} -> Some("longitude")
      [] mode = "cf" /\ n \in {"Lat_rho", "yc"} -> Some("latitude")
      [] mode = "odd" /\ n = "lon_rho" -> Some("latitude")
      [] mode = "odd" /\ n = "Lat_rho" -> Some("sea_surface_height")
      [] OTHER -> None

PoolOrder == <<"lon_rho", "Lat_rho", "xc", "yc", "zc", "latlon">>

InferDataset(tagged, pool, mode) ==
    LET chosen == SelectSeq(PoolOrder, LAMBDA n : n \in pool)
    IN  [dimensions |-> Dimensions,
         variables |->
            << Var("lon_psi", <<"eta_psi", "xi_psi">>, NoAttrs),
               Var("u", <<"time", "eta_u", "xi_u">>, ("location" :> "edge1")) >>
            \o [i \in 1..Len(tagged) |->
                   Var(TaggedNames[i], <<"time", "eta_rho", "xi_rho">>,
                       ("location" :> "face") @@ OptAttr("coordinates", tagged[i]))]
            \o [i \in 1..Len(chosen) |->
                   Var(chosen[i], PoolDimensions(chosen[i]),
                       OptAttr("standard_name", PoolStandardName(mode, chosen[i])))]
            \o << Var("lat_psi", <<>>, NoAttrs) >>]

InferInputs ==
    {[ds |-> InferDataset(tagged, pool, mode), topology_dim |-> td] :
        tagged \in TaggedSeqs, pool \in SUBSET CoordinatePool,
        mode \in StandardNameModes, td \in {2, 3}}

InitInfer ==
    \E input \in InferInputs :
        /\ ds = input.ds
        /\ infer = [location_str |-> "face", topology_dim |-> input.topology_dim,
                    called |-> FALSE, result |-> Ret(None)]
        /\ grid_topology_vars = None
        /\ sgrid = NewSGrid
        /\ var_props = NoProps
        /\ pc = "infer"
        /\ sg = None
        /\ error = NoError
        /\ td_writes = 0
        /\ trace = <<>>
        /\ earlier = <<>>

CallInference ==
    /\ pc = "infer"
    /\ infer' = [infer EXCEPT
                    !.called = TRUE,
                    !.result = find_coordinates_by_location(ds, infer.location_str,
                                                            infer.topology_dim)]
    /\ pc' = "inferred"
    /\ UNCHANGED <<ds, grid_topology_vars, sgrid, var_props, sg, error, td_writes,
                   trace, earlier>>

NextInfer == CallInference

SpecInfer == InitInfer /\ [][NextInfer]_vars

----------------------------------------------------------------------------
(* The same dataset loaded again, with the same explicit topology variable. *)

\* grid_argument with the grid the previous load returned handed in again
grid_argument_reused(previous) == previous

\* the grid argument of a load: a newly constructed SGrid
grid_argument(previous) == NewSGrid

\* after a load has returned the caller keeps its result and loads again
load_again ==
    /\ pc = "returned"
    /\ Len(earlier) < MaxLoads - 1
    /\ earlier' = Append(earlier, [sgrid |-> sgrid, var_props |-> var_props])
    /\ sgrid' = grid_argument(sgrid)
    /\ var_props' = NoProps
    /\ pc' = "start"
    /\ sg' = None
    /\ error' = NoError
    /\ td_writes' = 0
    /\ infer' = NoInfer
    /\ trace' = <<>>
    /\ UNCHANGED <<ds, grid_topology_vars>>

NextTwice == Next \/ load_again

SpecTwice == Init /\ [][NextTwice]_vars

----------------------------------------------------------------------------
(* Properties of the load.                                                 *)

\* the variables that meet the criteria of a topology variable
QualifyingVariables(d) ==
    {i \in 1..Len(d.variables) :
        /\ "cf_role" \in DOMAIN d.variables[i].attrs
        /\ strip(d.variables[i].attrs["cf_role"]) = <<"grid_topology">>
        /\ "topology_dimension" \in DOMAIN d.variables[i].attrs
        /\ d.variables[i].attrs["topology_dimension"] >= 2}

\* the load has ended without handing back a grid
Aborted == pc = "raised"
Returned == pc = "returned"

(* C1: whether or not an explicit topology variable is passed, a dataset    *)
(* with no variable whose trimmed cf_role is "grid_topology" and whose      *)
(* topology_dimension is >= 2 makes the load raise SGridNonCompliantError   *)
(* and return no grid; a dataset with such a variable never raises that     *)
(* error.                                                                   *)
C1_ComplianceDecidesNonCompliantError ==
    pc # "start" =>
        IF QualifyingVariables(ds) = {}
        THEN Aborted /\ error.type = "SGridNonCompliantError"
        ELSE error.type # "SGridNonCompliantError"

\* the topology variable the load selected (line 592), when the dataset has it
UsedTopologyVariable == GetVar(ds, Val(sgrid["grid_topology_vars"]))
UsesTopologyVariable ==
    /\ pc # "start"
    /\ IsSet(sgrid, "grid_topology_vars")
    /\ HasVar(ds, Val(sgrid["grid_topology_vars"]))

(* C2: when the topology variable the load uses (detected or explicit) has  *)
(* a topology_dimension other than 2 and 3, the load raises the ValueError  *)
(* of an unsupported topology dimension, returns no grid, and no resolver   *)
(* step has run: no resolver exists and the grid holds nothing but the      *)
(* dimensions and the topology variable's name.                             *)
C2_UnsupportedTopologyDimension ==
    ( /\ UsesTopologyVariable
      /\ "topology_dimension" \in DOMAIN UsedTopologyVariable.attrs
      /\ UsedTopologyVariable.attrs["topology_dimension"] \notin {2, 3} )
    => /\ Aborted
       /\ error = [type |-> "ValueError", at |-> "start"]
       /\ sg = None
       /\ td_writes = 0
       /\ var_props = NoProps
       /\ DOMAIN sgrid = SGridAttributes
       /\ \A a \in SGridAttributes \ {"dimensions", "grid_topology_vars"} :
              sgrid[a] = None

C2_Witness ==
    /\ UsesTopologyVariable
    /\ grid_topology_vars # None
    /\ "topology_dimension" \in DOMAIN UsedTopologyVariable.attrs
    /\ UsedTopologyVariable.attrs["topology_dimension"] = 4
    /\ Aborted
    /\ error.type = "ValueError"

Only2D ==
    {"face_dimensions", "face_padding", "face_coordinates",
     "vertical_dimensions", "vertical_padding"}

Only3D ==
    {"face1_dimensions", "face1_padding", "face1_coordinates",
     "face2_dimensions", "face2_padding", "face2_coordinates",
     "face3_dimensions", "face3_padding", "face3_coordinates",
     "volume_dimensions", "volume_padding", "volume_coordinates",
     "edge3_dimensions", "edge3_dimension", "edge3_padding", "edge3_coordinates"}

(* C3: after a successful load exactly one topology-specific group of       *)
(* attributes exists on the grid.  With topology_dimension 2 every 3-D-only *)
(* attribute is absent, the 2-D-only ones exist, and face_dimensions is set *)
(* when the topology variable carries it; with topology_dimension 3 every   *)
(* 2-D-only attribute is absent, and face1_dimensions and volume_dimensions *)
(* are set when the topology variable carries them.                         *)
C3_OneTopologyGroup ==
    Returned =>
        /\ sgrid["topology_dimension"] \in {Some(2), Some(3)}
        /\ sgrid["topology_dimension"] = Some(2) =>
              /\ \A a \in Only3D : a \notin DOMAIN sgrid
              /\ \A a \in Only2D : a \in DOMAIN sgrid
              /\ "face_dimensions" \in DOMAIN UsedTopologyVariable.attrs
                    => sgrid["face_dimensions"] # None
        /\ sgrid["topology_dimension"] = Some(3) =>
              /\ \A a \in Only2D : a \notin DOMAIN sgrid
              /\ \A a \in Only3D \ {"edge3_dimension"} : a \in DOMAIN sgrid
              /\ \A a \in {"face1_dimensions", "volume_dimensions"} :
                    a \in DOMAIN UsedTopologyVariable.attrs => sgrid[a] # None

C3_Witness ==
    /\ Returned
    /\ sgrid["topology_dimension"] = Some(2)
    /\ sgrid["face_dimensions"] # None
    /\ "edge3_dimensions" \in DOMAIN UsedTopologyVariable.attrs
    /\ "volume_dimensions" \in DOMAIN UsedTopologyVariable.attrs

\* where the load stands among the calls of its branch
CurrentStep == IF pc = "raised" THEN error.at ELSE pc
StepIndex(step) ==
    LET steps == StepsOf(Val(sg).topology_dim)
    IN  IF step = "returned" THEN Len(steps) + 1
        ELSE CHOOSE k \in 1..Len(steps) : steps[k] = step
\* the call of step has returned
Completed(step) ==
    /\ sg # None
    /\ step \in Range(StepsOf(Val(sg).topology_dim))
    /\ StepIndex(CurrentStep) > StepIndex(step)
\* the call of step has returned or raised
Attempted(step) ==
    Completed(step) \/ (sg # None /\ pc = "raised" /\ error.at = step)

(* C4: in a load that has built a resolver, set_sgrid_time reads grid_times *)
(* from the variable "time" when it exists and otherwise from "Times"; when *)
(* neither exists it raises KeyError, the load aborts and no grid is        *)
(* returned.  grid_times has no other source.  The absence of "angle"       *)
(* never aborts the load and leaves angles None.                            *)
C4_TimeAndAngles ==
    /\ Attempted("set_sgrid_time") =>
          IF "time" \in VarNames(ds)
          THEN Completed("set_sgrid_time") /\ sgrid["grid_times"] = Some("time")
          ELSE IF "Times" \in VarNames(ds)
          THEN Completed("set_sgrid_time") /\ sgrid["grid_times"] = Some("Times")
          ELSE /\ Aborted
               /\ error = [type |-> "KeyError", at |-> "set_sgrid_time"]
               /\ sgrid["grid_times"] = None
    /\ ~Completed("set_sgrid_time") => sgrid["grid_times"] = None
    /\ Returned => ("time" \in VarNames(ds) \/ "Times" \in VarNames(ds))
    /\ error.at # "set_sgrid_angles"
    /\ (Attempted("set_sgrid_angles") /\ "angle" \notin VarNames(ds)) =>
          /\ Completed("set_sgrid_angles")
          /\ sgrid["angles"] = None

C4_Witness ==
    /\ Aborted
    /\ error = [type |-> "KeyError", at |-> "set_sgrid_time"]
    /\ "angle" \notin VarNames(ds)
    /\ Completed("set_sgrid_angles")
    /\ sgrid["angles"] = None

(* C5: apart from non-compliance, an unsupported topology dimension and a   *)
(* missing time variable, nothing aborts a load: a load that has built the  *)
(* 2-D or 3-D resolver for a dataset with a time variable never raises,     *)
(* whatever attributes are absent and whatever the inference finds.         *)
C5_OnlyDetectionFailuresAbort ==
    (sg # None /\ ("time" \in VarNames(ds) \/ "Times" \in VarNames(ds)))
        => ~Aborted

\* the padding attributes of the topology variable the resolver reads
PaddingAttributesRead ==
    IF Val(sg).topology_dim = 2
    THEN {"face_dimensions", "edge1_dimensions", "edge2_dimensions",
          "vertical_dimensions"}
    ELSE {"edge1_dimensions", "edge2_dimensions", "edge3_dimensions",
          "face1_dimensions", "face2_dimensions", "face3_dimensions",
          "volume_dimensions"}

\* the padding kinds the topology variable gives for a dimension
KindsFor(dim) ==
    {c.padding : c \in {x \in UNION {Range(UsedTopologyVariable.attrs[a]) :
                                a \in PaddingAttributesRead
                                      \cap DOMAIN UsedTopologyVariable.attrs} :
                        x.dim = dim}}

SizeOf(dim) == CHOOSE n \in 0..20 : <<dim, n>> \in Range(ds.dimensions)

\* what a padding kind leaves of the indices 0..n-1, as (first, last)
ExpectedSlice(kind, n) ==
    << IF kind \in {"low", "both"} THEN 1 ELSE 0,
       IF kind \in {"high", "both"} THEN n - 2 ELSE n - 1 >>

(* C6: once set_sgrid_variable_attributes has run, every variable of the    *)
(* dataset has a descriptor whose center_slicing has one entry per          *)
(* dimension of the variable, in order; the entry is the full range when    *)
(* no padding clause names the dimension, and otherwise the range left by   *)
(* the clause's padding kind: low drops the first index, high the last,     *)
(* both the first and the last (1..8 of a dimension of size 10).            *)
C6_CenterSlicing ==
    Completed("set_sgrid_variable_attributes") =>
        /\ DOMAIN var_props = VarNames(ds)
        /\ \A i \in 1..Len(ds.variables) :
              LET v == ds.variables[i]
                  slicing == var_props[v.name].center_slicing
              IN  /\ Len(slicing) = Len(v.dimensions)
                  /\ \A k \in 1..Len(v.dimensions) :
                        LET n == SizeOf(v.dimensions[k])
                            kinds == KindsFor(v.dimensions[k])
                        IN  /\ kinds = {} => slicing[k] = <<0, n - 1>>
                            /\ kinds # {} =>
                                  \E kind \in kinds : slicing[k] = ExpectedSlice(kind, n)
                            /\ (kinds = {"both"} /\ n = 10) => slicing[k] = <<1, 8>>

C6_Witness ==
    /\ Completed("set_sgrid_variable_attributes")
    /\ KindsFor("eta_rho") = {"both"}
    /\ KindsFor("eta_u") = {"low"}
    /\ KindsFor("xi_v") = {"high"}
    /\ var_props["zeta"].center_slicing = << <<0, 2>>, <<1, 8>>, <<1, 4>> >>
    /\ var_props["u"].center_slicing = << <<0, 2>>, <<0, 3>>, <<1, 9>>, <<0, 4>> >>
    /\ var_props["v"].center_slicing = << <<0, 2>>, <<0, 3>>, <<0, 8>>, <<0, 4>> >>

----------------------------------------------------------------------------
(* Properties of find_coordinates_by_location.                             *)

\* the variables carrying the location, in iteration order
TaggedIndices ==
    {i \in 1..Len(ds.variables) :
        /\ "location" \in DOMAIN ds.variables[i].attrs
        /\ ds.variables[i].attrs["location"] = infer.location_str}
FirstTagged == ds.variables[CHOOSE i \in TaggedIndices : \A j \in TaggedIndices : i <= j]

\* the items of the first tagged variable's coordinates attribute
Tokens == SelectSeq(FirstTagged.attrs["coordinates"], LAMBDA w : w # " ")

NamedVariable(n) == CHOOSE v \in Range(ds.variables) : v.name = n

\* how an item is classified: by the standard_name of the variable it names,
\* and by that variable's name only when it has no standard_name
IsX(t) ==
    IF "standard_name" \in DOMAIN NamedVariable(t).attrs
    THEN NamedVariable(t).attrs["standard_name"] = "longitude"
    ELSE has_lon(t)
IsY(t) ==
    IF "standard_name" \in DOMAIN NamedVariable(t).attrs
    THEN NamedVariable(t).attrs["standard_name"] = "latitude"
    ELSE has_lat(t) /\ ~has_lon(t)

\* the last item of the attribute with a property, None when there is none
LastToken(P(_)) ==
    IF \E i \in 1..Len(Tokens) : P(Tokens[i])
    THEN Some(Tokens[CHOOSE i \in 1..Len(Tokens) :
                        P(Tokens[i]) /\ \A j \in (i + 1)..Len(Tokens) : ~P(Tokens[j])])
    ELSE None

ExpectedFromTokens ==
    LET x == LastToken(IsX)
        y == LastToken(IsY)
        z == IF Len(Tokens) = 3 THEN Some(Tokens[3]) ELSE None
    IN  IF infer.topology_dim = 2
        THEN IF x # None /\ y # None THEN Some(<<Val(x), Val(y)>>) ELSE None
        ELSE IF x # None /\ y # None /\ z # None
             THEN Some(<<Val(x), Val(y), Val(z)>>) ELSE None

(* C7: when the location-tagged variable (the first with the location) has  *)
(* a coordinates attribute whose items all name variables, each item is     *)
(* classified by the named variable's standard_name ("longitude" x,         *)
(* "latitude" y) and only without a standard_name by "lon" / "lat" in its   *)
(* lower-cased name ("lon" first); with exactly 3 items the 3rd is z        *)
(* whatever its name; the result is the pair (x, y) for topology dimension  *)
(* 2 and the triple (x, y, z) otherwise, and None when a slot of it is      *)
(* unfilled.                                                                *)
C7_CoordinatesAttribute ==
    ( /\ pc = "inferred"
      /\ TaggedIndices # {}
      /\ "coordinates" \in DOMAIN FirstTagged.attrs
      /\ \A i \in 1..Len(Tokens) : Tokens[i] \in VarNames(ds) )
    => /\ infer.result.ok
       /\ infer.result.val = ExpectedFromTokens

C7_Witness ==
    /\ pc = "inferred"
    /\ TaggedIndices # {}
    /\ "coordinates" \in DOMAIN FirstTagged.attrs
    /\ Len(Tokens) = 3
    /\ \A i \in 1..3 : Tokens[i] \in VarNames(ds)
    /\ has_lon(Tokens[3])
    /\ "standard_name" \in DOMAIN NamedVariable(Tokens[3]).attrs
    /\ infer.topology_dim = 3
    /\ infer.result.ok
    /\ infer.result.val # None
    /\ Val(infer.result.val)[3] = Tokens[3]
    /\ Val(infer.result.val)[2] = Tokens[3]

\* the variables the inference may pick when no coordinates attribute exists
Candidates ==
    {v.name : v \in {w \in Range(ds.variables) :
        \E i \in TaggedIndices :
            /\ w.name # ds.variables[i].name
            /\ Range(w.dimensions) # {}
            /\ Range(w.dimensions) \subseteq Range(ds.variables[i].dimensions)}}

NoTaggedCoordinates ==
    /\ TaggedIndices # {}
    /\ \A i \in TaggedIndices : "coordinates" \notin DOMAIN ds.variables[i].attrs

(* C8: when no variable with the location has a coordinates attribute, the  *)
(* names of the result are taken only from the other variables whose        *)
(* dimensions are a non-empty subset of a location variable's dimensions:   *)
(* x is one with "lon" in its lower-cased name, y one with "lat" (and not   *)
(* "lon"), z one with neither; the result is None exactly when a slot it    *)
(* needs has no such candidate.                                             *)
C8_InferenceByDimensions ==
    (pc = "inferred" /\ NoTaggedCoordinates) =>
        LET r == infer.result
            needs_z == infer.topology_dim # 2
            xs == {n \in Candidates : has_lon(n)}
            ys == {n \in Candidates : has_lat(n) /\ ~has_lon(n)}
            zs == {n \in Candidates : ~has_lat(n) /\ ~has_lon(n)}
        IN  /\ r.ok
            /\ r.val # None <=> (xs # {} /\ ys # {} /\ (needs_z => zs # {}))
            /\ r.val # None =>
                  /\ Len(Val(r.val)) = IF needs_z THEN 3 ELSE 2
                  /\ Val(r.val)[1] \in xs
                  /\ Val(r.val)[2] \in ys
                  /\ needs_z => Val(r.val)[3] \in zs

C8_Witness ==
    /\ pc = "inferred"
    /\ NoTaggedCoordinates
    /\ infer.topology_dim = 3
    /\ infer.result.val = Some(<<"lon_rho", "Lat_rho", "zc">>)

----------------------------------------------------------------------------
(* Properties of the detection of the topology variable.                   *)

FirstQualifying ==
    ds.variables[CHOOSE i \in QualifyingVariables(ds) :
                    \A j \in QualifyingVariables(ds) : i <= j]

(* C9: detection returns the first variable, in iteration order, whose      *)
(* trimmed cf_role is "grid_topology" and whose topology_dimension is >= 2, *)
(* and None when there is none, without raising; a load without an explicit *)
(* topology variable uses that first variable and dispatches on its         *)
(* topology_dimension.                                                      *)
C9_DetectionReturnsFirstQualifying ==
    pc # "start" =>
        /\ find_grid_topology_vars(ds).ok
        /\ find_grid_topology_vars(ds).val =
              IF QualifyingVariables(ds) = {} THEN None
              ELSE Some(FirstQualifying.name)
        /\ (grid_topology_vars = None /\ QualifyingVariables(ds) # {}) =>
              /\ sgrid["grid_topology_vars"] = Some(FirstQualifying.name)
              /\ IF FirstQualifying.attrs["topology_dimension"] \in {2, 3}
                 THEN /\ sg # None
                      /\ Val(sg).topology_variable = FirstQualifying.name
                      /\ Val(sg).topology_dim =
                            FirstQualifying.attrs["topology_dimension"]
                 ELSE sg = None /\ error.type = "ValueError"

----------------------------------------------------------------------------
(* Properties of the grid's topology_dimension.                            *)

(* C10 as stated: topology_dimension is assigned exactly once in a load,    *)
(* with the value 2 or 3, and no later step assigns it again.               *)
C10_SetExactlyOnce ==
    /\ td_writes <= 1
    /\ Completed("set_topology_dimension") =>
          /\ td_writes = 1
          /\ sgrid["topology_dimension"] \in {Some(2), Some(3)}

(* C10: in a load that builds a resolver topology_dimension is assigned     *)
(* twice, by set_topology_dimension and then by set_sgrid_topology, each    *)
(* time with a value that is 2 or 3; once it has a value the value never    *)
(* changes, and no other step assigns it.                                   *)
C10_AssignedTwiceSameValue ==
    [][ /\ sgrid["topology_dimension"] # None =>
              sgrid'["topology_dimension"] = sgrid["topology_dimension"]
        /\ td_writes' = td_writes =>
              sgrid'["topology_dimension"] = sgrid["topology_dimension"]
        /\ td_writes' # td_writes =>
              /\ pc \in {"set_topology_dimension", "set_sgrid_topology"}
              /\ td_writes' = td_writes + 1
              /\ sgrid'["topology_dimension"] \in {Some(2), Some(3)}
        /\ pc' = "set_topology_dimension" => td_writes' = 0
        /\ pc = "set_sgrid_topology" => td_writes' = 2
        /\ pc' = "returned" => td_writes' = 2 ]_vars

C10_Witness ==
    /\ Returned
    /\ td_writes = 2
    /\ sgrid["topology_dimension"] = Some(3)

PaddingSteps ==
    IF Val(sg).topology_dim = 2
    THEN {"set_all_edge_attributes", "set_all_face_attributes",
          "set_sgrid_vertical_dimensions"}
    ELSE {"set_all_edge_attributes", "set_all_face_attributes",
          "set_volume_dimensions"}

\* the resolver methods called before the i-th call
CalledBefore(i) == {trace[j] : j \in 1..(i - 1)}

(* C12: a load calls no resolver method twice; set_dimensions and           *)
(* set_topology_dimension are the first two calls; the edge, face and       *)
(* vertical (2-D) or volume (3-D) groups and grid_times are recorded before *)
(* the call that computes the center slices and builds the variable         *)
(* properties; nothing is called after delete_nd_attributes; and a load     *)
(* that returns has called every resolver method of its variant.            *)
C12_OneLinearPath ==
    /\ \A i, j \in 1..Len(trace) : trace[i] = trace[j] => i = j
    /\ Len(trace) >= 1 => trace[1] = "set_dimensions"
    /\ Len(trace) >= 2 => trace[2] = "set_topology_dimension"
    /\ \A i \in 1..Len(trace) :
           trace[i] = "set_sgrid_variable_attributes" =>
               PaddingSteps \cup {"set_sgrid_time"} \subseteq CalledBefore(i)
    /\ DOMAIN var_props # {} =>
           /\ Exists(sgrid, "grid_times")
           /\ IsSome(sgrid["grid_times"])
    /\ \A i \in 1..Len(trace) : trace[i] = "delete_nd_attributes" => i = Len(trace)
    /\ Returned =>
           /\ Range(trace) = Range(StepsOf(Val(sg).topology_dim))
           /\ trace[Len(trace)] = "delete_nd_attributes"

C12_Witness ==
    /\ Returned
    /\ Val(sg).topology_dim = 3
    /\ Len(trace) = Len(Steps3D)
    /\ DOMAIN var_props # {}
    /\ \E a \in {"edge1_padding", "face1_padding", "volume_padding"} :
           Exists(sgrid, a) /\ IsSome(sgrid[a])

----------------------------------------------------------------------------
(* Properties of the inference over several variables with the location.   *)

\* the names the first variable with the location offers when it has no
\* coordinates attribute: the other variables on a non-empty subset of its
\* dimensions
FirstCandidates ==
    {w.name : w \in {v \in Range(ds.variables) :
        /\ v.name # FirstTagged.name
        /\ Range(v.dimensions) # {}
        /\ Range(v.dimensions) \subseteq Range(FirstTagged.dimensions)}}

(* C13: the result of the inference is None when no variable has the       *)
(* location; otherwise every name of a result comes from the first         *)
(* variable with the location alone: from the items of its coordinates     *)
(* attribute, or, when it has none, from its own candidates, x with "lon"  *)
(* in the lower-cased name, y with "lat" (and not "lon"), z with neither.  *)
C13_SingleLocationVariable ==
    (pc = "inferred" /\ infer.result.ok) =>
        LET r == infer.result.val
            needs_z == infer.topology_dim # 2
        IN  IF TaggedIndices = {} THEN r = None
            ELSE r # None =>
                   IF "coordinates" \in DOMAIN FirstTagged.attrs
                   THEN \A i \in 1..Len(Val(r)) : Val(r)[i] \in Range(Tokens)
                   ELSE /\ Val(r)[1] \in {n \in FirstCandidates : has_lon(n)}
                        /\ Val(r)[2] \in {n \in FirstCandidates :
                                             has_lat(n) /\ ~has_lon(n)}
                        /\ needs_z =>
                             Val(r)[3] \in {n \in FirstCandidates :
                                               ~has_lat(n) /\ ~has_lon(n)}

====
